---- MODULE Spec2Model ----
(***************************************************************************)
(* Model of src/src/github.ts: getEnterpriseOrganizations (with            *)
(* fetchOutsideCollaborators) followed by checkUserMemberships (with       *)
(* checkUserMembershipInOrg).  Every await on a network call is a          *)
(* suspension point: one action per settled request.                       *)
(***************************************************************************)
EXTENDS Integers, Sequences, FiniteSets, TLC

\* ------------------------------------------------------------------ bounds
MaxOrgs == 2        \* organizations of the enterprise
MaxPages == 2       \* pages of one paginated listing
MaxUsers == 2       \* length of the usernames argument
MaxRepos == 3       \* length of the repositories argument of aggregateResults alone
MaxCalls == 2       \* calls of aggregateResults on the same arguments

\* ------------------------------------------------------------------ strings
\* A login is a sequence of one-character strings, so that casing is data.
Al == <<"A", "l">>
al == <<"a", "l">>
Bo == <<"B", "o">>
bo == <<"b", "o">>

OrgLogins == {"acme", "beta"}       \* organization logins of the platform
UserLogins == {Al, al, bo}          \* spellings an owner can arrive in
RunUserLogins == {Bo, bo}           \* the owners of a whole run
CollabLogins == {al, Bo}            \* spellings the collaborator listing returns
Messages == {"timeout", "denied"}   \* messages of failed requests

LowerChar(c) ==
  CASE c = "A" -> "a"
    [] c = "B" -> "b"
    [] OTHER -> c

\* String.prototype.toLowerCase
toLowerCase(s) == [i \in DOMAIN s |-> LowerChar(s[i])]

\* ------------------------------------------------------------------ helpers
Range(s) == {s[i] : i \in DOMAIN s}

NoDup(s) == \A i, j \in DOMAIN s : s[i] = s[j] => i = j

RECURSIVE Flatten(_)
Flatten(ps) == IF ps = <<>> THEN <<>> ELSE Head(ps) \o Flatten(Tail(ps))

SeqsUpTo(S, n) == UNION {[1..k -> S] : k \in 0..n}

\* The pages a paginated listing of the items of S can arrive in: at least one
\* page (an empty listing is one empty page), no item twice.
PagedListings(S, maxItems, maxPages) ==
  {ps \in SeqsUpTo(SeqsUpTo(S, maxItems), maxPages) :
     /\ Len(ps) >= 1
     /\ NoDup(Flatten(ps))
     /\ Len(Flatten(ps)) <= maxItems
     /\ \A i \in DOMAIN ps : ps[i] = <<>> => Len(ps) = 1}

\* Map.prototype.set on a Map kept as a sequence of <<key, value>> in insertion
\* order: an existing key keeps its position, a new key goes last.
MapHas(m, k) == \E i \in DOMAIN m : m[i][1] = k

MapSet(m, k, v) ==
  IF MapHas(m, k)
    THEN [i \in DOMAIN m |-> IF m[i][1] = k THEN <<k, v>> ELSE m[i]]
    ELSE Append(m, <<k, v>>)

MapKeys(m) == [i \in DOMAIN m |-> m[i][1]]

\* ------------------------------------------------------------------ state
VARIABLES
  entPages,        \* platform: the pages of the enterprise's organization logins
  collabPages,     \* platform: per organization, the pages of its outside collaborators
  pcOrgs,          \* getEnterpriseOrganizations: "enumerating", "building", "returned", "failed"
  enumCursor,      \* next page of the organization listing
  orgLogins,       \* const orgLogins: string[]
  builds,          \* collaboratorPromises: per login, the running fetchOutsideCollaborators
  buildOrder,      \* the order in which the collaboratorPromises settled
  organizations,   \* the OrganizationInfo[] returned
  rejected,        \* what the request of the organization listing rejected with, or NoRejection
  thrown,          \* the message of the Error getEnterpriseOrganizations threw, or NoThrow
  usernames,       \* the usernames argument of checkUserMemberships
  pcMem,           \* checkUserMemberships: "idle", "checking", "returned"
  units,           \* the usernames a resolution unit was created for, in loop order
  checks,          \* per <<unit, organization index>>: the pending or settled check
  userOrgs,        \* per unit: userMembership.organizations, in insertion order
  userMemberships, \* the Map userMemberships: <<username, unit>> in insertion order
  setLog,          \* every userMemberships.set call: <<username, unit>>
  repositories,    \* the repositories argument of aggregateResults: SearchResult[]
  reports          \* what each call of aggregateResults returned, in call order

orgVars == <<entPages, collabPages, pcOrgs, enumCursor, orgLogins, builds,
             buildOrder, organizations, rejected, thrown>>
memVars == <<usernames, pcMem, units, checks, userOrgs, userMemberships, setLog>>
aggVars == <<repositories, reports>>
vars == <<entPages, collabPages, pcOrgs, enumCursor, orgLogins, builds,
          buildOrder, organizations, rejected, thrown, usernames, pcMem, units, checks,
          userOrgs, userMemberships, setLog, repositories, reports>>

NoThrow == <<>>
NoRejection == [isError |-> FALSE, message |-> "none"]

\* What a failed request rejects with: an Error with a message, or a value
\* that is no Error.
Rejections == [isError : BOOLEAN, message : Messages]

\* ------------------------------------------------- getEnterpriseOrganizations
\* Variant: the catch never reads error.message.
ErrorMessageAlwaysUnknown(e) == "Unknown error"

\* catch (error): error instanceof Error ? error.message : 'Unknown error'
ErrorMessage(e) == IF e.isError THEN e.message ELSE "Unknown error"

\* throw new Error(`Failed to fetch enterprise organizations: ${message}`)
EnumerationError(e) == <<"Failed to fetch enterprise organizations: ", ErrorMessage(e)>>

\* for (const org of nodes) orgLogins.push(org.login)
PushLogins(logins, nodes) == logins \o nodes

\* for (const collaborator of response.data) collaborators.add(login.toLowerCase())
AddCollaborators(collaborators, data) ==
  collaborators \cup {toLowerCase(data[j]) : j \in DOMAIN data}

\* orgLogins.map(async (login) => ...): every fetchOutsideCollaborators starts,
\* with an empty Set, and waits for its first page.
StartBuilds(logins) ==
  [i \in DOMAIN logins |->
     [login |-> logins[i], cursor |-> 1, collaborators |-> {},
      settled |-> FALSE, failed |-> FALSE]]

\* Variant: Promise.race in place of Promise.all.
AnyBuildSettled == \E i \in DOMAIN builds : builds[i].settled

AllBuildsSettled == \A i \in DOMAIN builds : builds[i].settled

\* Variant: every result pushed as its fetch settles.
ResultsInSettleOrder(bs, order) ==
  [j \in DOMAIN order |->
     [login |-> bs[order[j]].login, outsideCollaborators |-> bs[order[j]].collaborators]]

\* await Promise.all(collaboratorPromises): the results in the order of the
\* promises, whatever order they settled in.
PromiseAllResults(bs, order) ==
  [i \in DOMAIN bs |->
     [login |-> bs[i].login, outsideCollaborators |-> bs[i].collaborators]]

\* One page of the organization listing arrives.
EnumPage ==
  /\ pcOrgs = "enumerating"
  /\ enumCursor <= Len(entPages)
  /\ orgLogins' = PushLogins(orgLogins, entPages[enumCursor])
  /\ enumCursor' = enumCursor + 1
  /\ UNCHANGED <<entPages, collabPages, pcOrgs, builds, buildOrder, organizations, rejected, thrown>>
  /\ UNCHANGED memVars
  /\ UNCHANGED aggVars

\* The request for a page of the organization listing fails: the outer catch
\* rethrows, and nothing is returned.
EnumFail ==
  /\ pcOrgs = "enumerating"
  /\ enumCursor <= Len(entPages)
  /\ \E e \in Rejections :
       /\ rejected' = e
       /\ thrown' = EnumerationError(e)
  /\ pcOrgs' = "failed"
  /\ UNCHANGED <<entPages, collabPages, enumCursor, orgLogins, builds, buildOrder, organizations>>
  /\ UNCHANGED memVars
  /\ UNCHANGED aggVars

\* The listing is exhausted: the collaborator fetches of all logins start.
EnumDone ==
  /\ pcOrgs = "enumerating"
  /\ enumCursor > Len(entPages)
  /\ builds' = StartBuilds(orgLogins)
  /\ pcOrgs' = "building"
  /\ UNCHANGED <<entPages, collabPages, enumCursor, orgLogins, buildOrder, organizations, rejected, thrown>>
  /\ UNCHANGED memVars
  /\ UNCHANGED aggVars

\* fetchOutsideCollaborators of login i receives a page.
CollabPage(i) ==
  /\ pcOrgs = "building"
  /\ ~builds[i].settled
  /\ builds[i].cursor <= Len(collabPages[builds[i].login])
  /\ builds' = [builds EXCEPT
       ![i].collaborators =
          AddCollaborators(@, collabPages[builds[i].login][builds[i].cursor]),
       ![i].cursor = @ + 1]
  /\ UNCHANGED <<entPages, collabPages, pcOrgs, enumCursor, orgLogins, buildOrder, organizations, rejected, thrown>>
  /\ UNCHANGED memVars
  /\ UNCHANGED aggVars

\* fetchOutsideCollaborators of login i: the request for a page fails; the catch
\* swallows the error and the function returns the Set as it stands.
CollabFail(i) ==
  /\ pcOrgs = "building"
  /\ ~builds[i].settled
  /\ builds[i].cursor <= Len(collabPages[builds[i].login])
  /\ builds' = [builds EXCEPT ![i].settled = TRUE, ![i].failed = TRUE]
  /\ buildOrder' = Append(buildOrder, i)
  /\ UNCHANGED <<entPages, collabPages, pcOrgs, enumCursor, orgLogins, organizations, rejected, thrown>>
  /\ UNCHANGED memVars
  /\ UNCHANGED aggVars

\* fetchOutsideCollaborators of login i: the listing is exhausted, the Set is returned.
CollabDone(i) ==
  /\ pcOrgs = "building"
  /\ ~builds[i].settled
  /\ builds[i].cursor > Len(collabPages[builds[i].login])
  /\ builds' = [builds EXCEPT ![i].settled = TRUE]
  /\ buildOrder' = Append(buildOrder, i)
  /\ UNCHANGED <<entPages, collabPages, pcOrgs, enumCursor, orgLogins, organizations, rejected, thrown>>
  /\ UNCHANGED memVars
  /\ UNCHANGED aggVars

\* Promise.all resolves; organizations.push(...results); return organizations.
OrgsReturn ==
  /\ pcOrgs = "building"
  /\ AllBuildsSettled
  /\ organizations' = organizations \o PromiseAllResults(builds, buildOrder)
  /\ pcOrgs' = "returned"
  /\ UNCHANGED <<entPages, collabPages, enumCursor, orgLogins, builds, buildOrder, rejected, thrown>>
  /\ UNCHANGED memVars
  /\ UNCHANGED aggVars

\* ------------------------------------------------------- checkUserMemberships
\* What a checkMembershipForUser request settles with: it resolves for a member,
\* rejects with 404 for a non-member, and rejects otherwise when it fails.
Responses == {"resolved", "not_found", "error"}

\* Variant: the cached collaborators are consulted before the direct check.
checkCacheFirst(org, username, response) ==
  IF toLowerCase(username) \in org.outsideCollaborators
    THEN "outside_collaborator"
    ELSE IF response = "resolved" THEN "member" ELSE "none"

\* Variant: the cache lookup without toLowerCase.
checkExactCase(org, username, response) ==
  IF response = "resolved"
    THEN "member"
    ELSE IF username \in org.outsideCollaborators
           THEN "outside_collaborator"
           ELSE "none"

\* Variant: only a 404 counts as "not a member".
checkErrorAsMember(org, username, response) ==
  IF response /= "not_found"
    THEN "member"
    ELSE IF toLowerCase(username) \in org.outsideCollaborators
           THEN "outside_collaborator"
           ELSE "none"

\* checkUserMembershipInOrg: any rejection takes the catch branch.
checkUserMembershipInOrg(org, username, response) ==
  IF response = "resolved"
    THEN "member"
    ELSE IF toLowerCase(username) \in org.outsideCollaborators
           THEN "outside_collaborator"
           ELSE "none"

\* [...new Set(usernames)]: the first occurrence of every exact string.
RECURSIVE UniqueUsernames(_)
UniqueUsernames(us) ==
  IF us = <<>> THEN <<>>
  ELSE LET init == UniqueUsernames(SubSeq(us, 1, Len(us) - 1))
           last == us[Len(us)]
       IN IF last \in Range(init) THEN init ELSE Append(init, last)

\* Variant: userCache keyed by the username as written.
CacheKeyExact(username) == username

\* The key of userCache: userCache.has(username.toLowerCase())
CacheKey(username) == toLowerCase(username)

\* Variant: the unit is created for the lower-cased username.
RECURSIVE SpawnLoopLowerCased(_, _, _)
SpawnLoopLowerCased(rest, userCache, spawned) ==
  IF rest = <<>> THEN spawned
  ELSE IF CacheKey(Head(rest)) \in userCache
         THEN SpawnLoopLowerCased(Tail(rest), userCache, spawned)
         ELSE SpawnLoopLowerCased(Tail(rest), userCache \cup {CacheKey(Head(rest))},
                                  Append(spawned, CacheKey(Head(rest))))

\* for (const username of uniqueUsernames): the usernames that pass the
\* userCache test, in loop order; each gets one resolution unit.
RECURSIVE SpawnLoop(_, _, _)
SpawnLoop(rest, userCache, spawned) ==
  IF rest = <<>> THEN spawned
  ELSE IF CacheKey(Head(rest)) \in userCache
         THEN SpawnLoop(Tail(rest), userCache, spawned)
         ELSE SpawnLoop(Tail(rest), userCache \cup {CacheKey(Head(rest))},
                        Append(spawned, Head(rest)))

PendingCheck == [settled |-> FALSE, response |-> "pending", membership |-> "none"]

\* Variant: the organization callback rethrows, so Promise.all resolves only
\* when no check has failed.
UnitSettledWithoutFailure(k) ==
  \A i \in DOMAIN organizations :
    checks[<<k, i>>].settled /\ checks[<<k, i>>].response /= "error"

\* Variant: Promise.race in place of Promise.all.
UnitSettledAny(k) == \E i \in DOMAIN organizations : checks[<<k, i>>].settled

\* Promise.all(orgPromises) of unit k has resolved: every organization's check settled.
UnitSettled(k) == \A i \in DOMAIN organizations : checks[<<k, i>>].settled

Committed(k) == \E j \in DOMAIN setLog : setLog[j][2] = k

\* Variant: every outcome is entered, 'none' too.
RecordMembershipAlways(orgsMap, login, membership) == MapSet(orgsMap, login, membership)

\* if (membership !== 'none') userMembership.organizations.set(org.login, membership)
RecordMembership(orgsMap, login, membership) ==
  IF membership /= "none" THEN MapSet(orgsMap, login, membership) ELSE orgsMap

\* The synchronous part of checkUserMemberships: the loop creates a unit for every
\* username that passes the userCache test and starts all its organization checks.
StartChecks ==
  /\ pcOrgs = "returned"
  /\ pcMem = "idle"
  /\ LET spawned == SpawnLoop(UniqueUsernames(usernames), {}, <<>>) IN
       /\ units' = spawned
       /\ checks' = [c \in (DOMAIN spawned) \X (DOMAIN organizations) |-> PendingCheck]
       /\ userOrgs' = [k \in DOMAIN spawned |-> <<>>]
  /\ pcMem' = "checking"
  /\ UNCHANGED <<usernames, userMemberships, setLog>>
  /\ UNCHANGED orgVars
  /\ UNCHANGED aggVars

\* The checkMembershipForUser request of unit k for organization i settles, and
\* the organization's async callback runs to its end.
CheckSettle(k, i) ==
  /\ pcMem = "checking"
  /\ ~checks[<<k, i>>].settled
  /\ \E response \in Responses :
       LET membership == checkUserMembershipInOrg(organizations[i], units[k], response)
       IN /\ checks' = [checks EXCEPT ![<<k, i>>] =
                 [settled |-> TRUE, response |-> response, membership |-> membership]]
          /\ userOrgs' = [userOrgs EXCEPT ![k] =
                 RecordMembership(@, organizations[i].login, membership)]
  /\ UNCHANGED <<usernames, pcMem, units, userMemberships, setLog>>
  /\ UNCHANGED orgVars
  /\ UNCHANGED aggVars

\* Promise.all(orgPromises).then(() => userMemberships.set(username, userMembership))
UnitCommit(k) ==
  /\ pcMem = "checking"
  /\ ~Committed(k)
  /\ UnitSettled(k)
  /\ userMemberships' = MapSet(userMemberships, units[k], k)
  /\ setLog' = Append(setLog, <<units[k], k>>)
  /\ UNCHANGED <<usernames, pcMem, units, checks, userOrgs>>
  /\ UNCHANGED orgVars
  /\ UNCHANGED aggVars

\* await Promise.all(membershipPromises); return userMemberships
MemReturn ==
  /\ pcMem = "checking"
  /\ \A k \in DOMAIN units : Committed(k)
  /\ pcMem' = "returned"
  /\ UNCHANGED <<usernames, units, checks, userOrgs, userMemberships, setLog>>
  /\ UNCHANGED orgVars
  /\ UNCHANGED aggVars

\* ----------------------------------------------------------- aggregateResults
\* Map.prototype.get on a Map kept as a sequence of <<key, value>>.
MapGet(m, k) == (CHOOSE i \in DOMAIN m : m[i][1] = k)

\* The collation rank of a letter, case aside: a < b < l < o.
LetterRank(c) ==
  CASE LowerChar(c) = "a" -> 1
    [] LowerChar(c) = "b" -> 2
    [] LowerChar(c) = "l" -> 3
    [] OTHER -> 4

\* Lower case sorts before upper case of the same letter.
CaseRank(c) == IF LowerChar(c) = c THEN 0 ELSE 1

RECURSIVE LexCompare(_, _)
LexCompare(x, y) ==
  IF x = <<>> THEN (IF y = <<>> THEN 0 ELSE -1)
  ELSE IF y = <<>> THEN 1
  ELSE IF Head(x) < Head(y) THEN -1
  ELSE IF Head(x) > Head(y) THEN 1
  ELSE LexCompare(Tail(x), Tail(y))

\* String.prototype.localeCompare: the letters decide, and between strings of
\* the same letters the first difference of case does.
localeCompare(x, y) ==
  LET letters == LexCompare([i \in DOMAIN x |-> LetterRank(x[i])],
                            [i \in DOMAIN y |-> LetterRank(y[i])])
  IN IF letters /= 0 THEN letters
     ELSE LexCompare([i \in DOMAIN x |-> CaseRank(x[i])],
                     [i \in DOMAIN y |-> CaseRank(y[i])])

\* Variant: userRepos keyed by the lower-cased owner.
RECURSIVE GroupByLowerOwner(_)
GroupByLowerOwner(repos) ==
  IF repos = <<>> THEN <<>>
  ELSE LET userRepos == GroupByLowerOwner(SubSeq(repos, 1, Len(repos) - 1))
           repo == repos[Len(repos)]
           key == toLowerCase(repo.owner)
           existing == IF MapHas(userRepos, key)
                         THEN userRepos[MapGet(userRepos, key)][2]
                         ELSE <<>>
       IN MapSet(userRepos, key, Append(existing, repo))

\* Variant: existing.unshift(repo), and a repository already held is skipped.
RECURSIVE GroupNewestFirst(_)
GroupNewestFirst(repos) ==
  IF repos = <<>> THEN <<>>
  ELSE LET userRepos == GroupNewestFirst(SubSeq(repos, 1, Len(repos) - 1))
           repo == repos[Len(repos)]
           existing == IF MapHas(userRepos, repo.owner)
                         THEN userRepos[MapGet(userRepos, repo.owner)][2]
                         ELSE <<>>
       IN IF repo \in Range(existing) THEN userRepos
          ELSE MapSet(userRepos, repo.owner, <<repo>> \o existing)

\* for (const repo of repositories): userRepos, a Map from the raw owner string
\* to the owner's repositories, in input order.
RECURSIVE GroupByOwner(_)
GroupByOwner(repos) ==
  IF repos = <<>> THEN <<>>
  ELSE LET userRepos == GroupByOwner(SubSeq(repos, 1, Len(repos) - 1))
           repo == repos[Len(repos)]
           existing == IF MapHas(userRepos, repo.owner)
                         THEN userRepos[MapGet(userRepos, repo.owner)][2]
                         ELSE <<>>
       IN MapSet(userRepos, repo.owner, Append(existing, repo))

\* Variant: the entry whose key is the username in any casing.
MembershipListAnyCasing(memberships, username) ==
  LET same == {i \in DOMAIN memberships :
                 toLowerCase(memberships[i][1]) = toLowerCase(username)}
  IN IF same /= {}
       THEN LET orgsMap == memberships[CHOOSE i \in same : TRUE][2]
            IN [j \in DOMAIN orgsMap |-> [org |-> orgsMap[j][1], type |-> orgsMap[j][2]]]
       ELSE <<>>

\* Variant: memberships.get(username.toLowerCase())
MembershipListLowerKey(memberships, username) ==
  IF MapHas(memberships, toLowerCase(username))
    THEN LET orgsMap == memberships[MapGet(memberships, toLowerCase(username))][2]
         IN [j \in DOMAIN orgsMap |-> [org |-> orgsMap[j][1], type |-> orgsMap[j][2]]]
    ELSE <<>>

\* memberships.get(username), and the {org, type} list of its organizations
\* Map in the Map's order; empty when the Map has no such key.
MembershipList(memberships, username) ==
  IF MapHas(memberships, username)
    THEN LET orgsMap == memberships[MapGet(memberships, username)][2]
         IN [j \in DOMAIN orgsMap |-> [org |-> orgsMap[j][1], type |-> orgsMap[j][2]]]
    ELSE <<>>

\* for (const [username, repos] of userRepos) results.push(...)
BuildResults(userRepos, memberships) ==
  [i \in DOMAIN userRepos |->
     [username |-> userRepos[i][1],
      repositories |-> userRepos[i][2],
      memberships |-> MembershipList(memberships, userRepos[i][1])]]

\* Variant: fewest memberships first.
compareFewestFirst(a, b) ==
  IF Len(b.memberships) /= Len(a.memberships)
    THEN Len(a.memberships) - Len(b.memberships)
    ELSE localeCompare(a.username, b.username)

\* The comparator of results.sort
compareResults(a, b) ==
  IF Len(b.memberships) /= Len(a.memberships)
    THEN Len(b.memberships) - Len(a.memberships)
    ELSE localeCompare(a.username, b.username)

\* Array.prototype.sort, which is stable: x goes before the first element that
\* compares greater than it.
InsertSorted(sorted, x) ==
  LET after == {i \in DOMAIN sorted : compareResults(sorted[i], x) > 0}
      at == IF after = {} THEN Len(sorted) + 1
            ELSE CHOOSE i \in after : \A j \in after : i <= j
  IN SubSeq(sorted, 1, at - 1) \o <<x>> \o SubSeq(sorted, at, Len(sorted))

RECURSIVE SortResults(_)
SortResults(rs) ==
  IF rs = <<>> THEN <<>>
  ELSE InsertSorted(SortResults(SubSeq(rs, 1, Len(rs) - 1)), rs[Len(rs)])

\* Variant: the results follow the order of the memberships Map, owners without
\* an entry last, and are not sorted.
aggregateInMapOrder(repos, memberships) ==
  LET built == BuildResults(GroupByOwner(repos), memberships)
      ofEntry == [j \in DOMAIN memberships |->
                    SelectSeq(built, LAMBDA x : x.username = memberships[j][1])]
  IN Flatten(ofEntry) \o SelectSeq(built, LAMBDA x : ~MapHas(memberships, x.username))

\* Variant: results is a module-level array that every call pushes onto.
aggregateIntoSharedResults(repos, memberships) ==
  SortResults((IF reports = <<>> THEN <<>> ELSE reports[Len(reports)])
              \o BuildResults(GroupByOwner(repos), memberships))

aggregateResults(repos, memberships) ==
  SortResults(BuildResults(GroupByOwner(repos), memberships))

\* The Map checkUserMemberships returned, as a value: <<username, organizations>>
\* in insertion order.
MembershipsValue ==
  [j \in DOMAIN userMemberships |->
     <<userMemberships[j][1], userOrgs[userMemberships[j][2]]>>]

\* A call of aggregateResults on the repositories and the returned Map. The
\* function is synchronous and writes only to its own userRepos and results.
Aggregate ==
  /\ pcMem = "returned"
  /\ Len(reports) < MaxCalls
  /\ reports' = Append(reports, aggregateResults(repositories, MembershipsValue))
  /\ UNCHANGED repositories
  /\ UNCHANGED orgVars
  /\ UNCHANGED memVars

\* ------------------------------------------------------------ specifications
\* The run: getEnterpriseOrganizations, then checkUserMemberships on its result.
Init ==
  /\ entPages \in PagedListings(OrgLogins, MaxOrgs, MaxPages)
  /\ collabPages \in [OrgLogins -> PagedListings(CollabLogins, MaxPages, MaxPages)]
  /\ pcOrgs = "enumerating"
  /\ enumCursor = 1
  /\ orgLogins = <<>>
  /\ builds = <<>>
  /\ buildOrder = <<>>
  /\ organizations = <<>>
  /\ rejected = NoRejection
  /\ thrown = NoThrow
  /\ usernames \in SeqsUpTo(RunUserLogins, MaxUsers)
  /\ pcMem = "idle"
  /\ units = <<>>
  /\ checks = <<>>
  /\ userOrgs = <<>>
  /\ userMemberships = <<>>
  /\ setLog = <<>>
  /\ repositories = <<>>
  /\ reports = <<>>

Next ==
  \/ EnumPage
  \/ EnumFail
  \/ EnumDone
  \/ \E i \in DOMAIN builds : CollabPage(i)
  \/ \E i \in DOMAIN builds : CollabFail(i)
  \/ \E i \in DOMAIN builds : CollabDone(i)
  \/ OrgsReturn
  \/ StartChecks
  \/ \E k \in DOMAIN units, i \in DOMAIN organizations : CheckSettle(k, i)
  \/ \E k \in DOMAIN units : UnitCommit(k)
  \/ MemReturn

Spec == Init /\ [][Next]_vars

\* The lower-cased Sets fetchOutsideCollaborators can return.
CollaboratorSets == SUBSET {toLowerCase(c) : c \in CollabLogins}

\* The OrganizationInfo[] values getEnterpriseOrganizations can return.
OrganizationLists ==
  {os \in SeqsUpTo([login : OrgLogins, outsideCollaborators : CollaboratorSets], MaxOrgs) :
     NoDup([i \in DOMAIN os |-> os[i].login])}

\* checkUserMemberships alone, on any organizations and any usernames.
InitMem ==
  /\ entPages = <<>>
  /\ collabPages = <<>>
  /\ pcOrgs = "returned"
  /\ enumCursor = 1
  /\ orgLogins = <<>>
  /\ builds = <<>>
  /\ buildOrder = <<>>
  /\ organizations \in OrganizationLists
  /\ rejected = NoRejection
  /\ thrown = NoThrow
  /\ usernames \in SeqsUpTo(UserLogins, MaxUsers)
  /\ pcMem = "idle"
  /\ units = <<>>
  /\ checks = <<>>
  /\ userOrgs = <<>>
  /\ userMemberships = <<>>
  /\ setLog = <<>>
  /\ repositories = <<>>
  /\ reports = <<>>

NextMem ==
  \/ StartChecks
  \/ \E k \in DOMAIN units, i \in DOMAIN organizations : CheckSettle(k, i)
  \/ \E k \in DOMAIN units : UnitCommit(k)
  \/ MemReturn

SpecMem == InitMem /\ [][NextMem]_vars

\* checkUserMemberships reads of an organization's login only whether it is the
\* key of a Map entry, so organization lists that differ by a renaming of the
\* logins behave alike: these are the lists with the logins in one order.
OrgLoginOrder == <<"acme", "beta">>
InLoginOrder(os) == \A i \in DOMAIN os : os[i].login = OrgLoginOrder[i]

\* checkUserMemberships where every request settles and every continuation the
\* event loop holds is run: a step that stays possible is eventually taken.
InitMemFair == InitMem /\ InLoginOrder(organizations)

SpecMemFair == InitMemFair /\ [][NextMem]_vars /\ WF_vars(NextMem)

\* The report: checkUserMemberships on the owners of the repositories, in
\* repository order, then aggregateResults on the repositories and its result.
\* The repositories are distinct: the i-th one is named i.
InitReport ==
  /\ entPages = <<>>
  /\ collabPages = <<>>
  /\ pcOrgs = "returned"
  /\ enumCursor = 1
  /\ orgLogins = <<>>
  /\ builds = <<>>
  /\ buildOrder = <<>>
  /\ organizations \in {os \in OrganizationLists : InLoginOrder(os)}
  /\ rejected = NoRejection
  /\ thrown = NoThrow
  /\ usernames \in SeqsUpTo(UserLogins, MaxUsers)
  /\ pcMem = "idle"
  /\ units = <<>>
  /\ checks = <<>>
  /\ userOrgs = <<>>
  /\ userMemberships = <<>>
  /\ setLog = <<>>
  /\ repositories = [i \in DOMAIN usernames |-> [owner |-> usernames[i], repo |-> i]]
  /\ reports = <<>>

NextReport ==
  \/ StartChecks
  \/ \E k \in DOMAIN units, i \in DOMAIN organizations : CheckSettle(k, i)
  \/ \E k \in DOMAIN units : UnitCommit(k)
  \/ MemReturn
  \/ Aggregate

SpecReport == InitReport /\ [][NextReport]_vars

\* The SearchResult values of the repositories argument.
RepoNames == {"x", "y"}
SearchResults == [owner : UserLogins, repo : RepoNames]

\* The values checkUserMemberships can return: the users its loop can spawn
\* (no two alike when lower-cased), each with an organizations Map without
\* 'none'; aggregateResults copies the types and never reads them, so each
\* organization comes with one type here.
MembershipTypeIn(login) == IF login = "acme" THEN "member" ELSE "outside_collaborator"
OrganizationsMaps ==
  {m \in SeqsUpTo({<<login, MembershipTypeIn(login)>> : login \in OrgLogins}, MaxOrgs) :
     NoDup(MapKeys(m))}
SpawnedUsers ==
  {us \in SeqsUpTo(UserLogins, MaxUsers) : NoDup([i \in DOMAIN us |-> CacheKey(us[i])])}
CommitOrders(us) ==
  {o \in [DOMAIN us -> {<<us[k], k>> : k \in DOMAIN us}] : NoDup(o)}

\* aggregateResults alone, on any repositories and any returned Map.
InitAgg ==
  /\ entPages = <<>>
  /\ collabPages = <<>>
  /\ pcOrgs = "returned"
  /\ enumCursor = 1
  /\ orgLogins = <<>>
  /\ builds = <<>>
  /\ buildOrder = <<>>
  /\ organizations = <<>>
  /\ rejected = NoRejection
  /\ thrown = NoThrow
  /\ units \in SpawnedUsers
  /\ usernames = units
  /\ pcMem = "returned"
  /\ checks = <<>>
  /\ userOrgs \in [DOMAIN units -> OrganizationsMaps]
  /\ setLog \in CommitOrders(units)
  /\ userMemberships = setLog
  /\ repositories \in SeqsUpTo(SearchResults, MaxRepos)
  /\ reports = <<>>

NextAgg == Aggregate

SpecAgg == InitAgg /\ [][NextAgg]_vars

\* ------------------------------------------------------------------ claims
Pairs == (DOMAIN units) \X (DOMAIN organizations)

LowerKeys(m) == [j \in DOMAIN m |-> toLowerCase(m[j][1])]

\* C1: an entry is in userMemberships only when every organization check of its
\* username has settled; no entry's organizations map is still being filled.
C1_EntryOnlyAfterAllChecksSettled ==
  \A j \in DOMAIN userMemberships :
    \A i \in DOMAIN organizations : checks[<<userMemberships[j][2], i>>].settled

\* One user's entry is visible, complete with two organizations, while the other
\* user's checks are still running.
C1_Witness ==
  /\ Len(userMemberships) = 1
  /\ Len(userOrgs[userMemberships[1][2]]) = 2
  /\ \E c \in Pairs : ~checks[c].settled

\* C2: every entry's username is, case-insensitively, one of the input; no two
\* entries and no two userMemberships.set calls share a case-insensitive username.
C2_AtMostOneEntryPerUser ==
  /\ \A j \in DOMAIN userMemberships :
       \E n \in DOMAIN usernames :
         toLowerCase(userMemberships[j][1]) = toLowerCase(usernames[n])
  /\ NoDup(LowerKeys(userMemberships))
  /\ NoDup(LowerKeys(setLog))
  /\ NoDup([j \in DOMAIN setLog |-> setLog[j][2]])

\* "Al" and "al" were both passed, and the call returned a single entry.
C2_Witness ==
  /\ pcMem = "returned"
  /\ Range(usernames) = {Al, al}
  /\ Len(userMemberships) = 1

OrgIndex(login) == CHOOSE i \in DOMAIN organizations : organizations[i].login = login

\* C3: the organizations map of every user in userMemberships lists its
\* organizations in the order of the organizations argument, whatever order the
\* checks settled in.
C3_OrganizationsInIterationOrder ==
  \A j \in DOMAIN userMemberships :
    LET orgsMap == userOrgs[userMemberships[j][2]] IN
      \A a, b \in DOMAIN orgsMap :
        a < b => OrgIndex(orgsMap[a][1]) < OrgIndex(orgsMap[b][1])

\* C4: a collaborator listing that fails, on whatever page, yields the empty
\* set, so that every check against that organization is member when the direct
\* check resolves and none otherwise.
C4_FailedListingYieldsEmptySet ==
  /\ \A i \in DOMAIN builds : builds[i].failed => builds[i].collaborators = {}
  /\ \A c \in Pairs :
       (checks[c].settled /\ builds[c[2]].failed) =>
         checks[c].membership = (IF checks[c].response = "resolved" THEN "member" ELSE "none")

\* C5: a direct membership query that resolves gives member, whatever the
\* organization's collaborator set holds.
C5_DirectMembershipWins ==
  \A c \in Pairs :
    (checks[c].settled /\ checks[c].response = "resolved") => checks[c].membership = "member"

\* The query resolved for a user who is also in the collaborator set.
C5_Witness ==
  \E c \in Pairs :
    /\ checks[c].settled
    /\ checks[c].response = "resolved"
    /\ toLowerCase(units[c[1]]) \in organizations[c[2]].outsideCollaborators

\* C6: a direct membership query that rejects, for whatever reason, gives
\* outside_collaborator when the lower-cased username is in the organization's
\* collaborator set, and none otherwise.
C6_RejectionFallsBackToCache ==
  \A c \in Pairs :
    (checks[c].settled /\ checks[c].response /= "resolved") =>
      checks[c].membership =
        (IF toLowerCase(units[c[1]]) \in organizations[c[2]].outsideCollaborators
           THEN "outside_collaborator" ELSE "none")

\* "Al" is found through the lower-cased set after a 404 for one organization and
\* after another failure for the other.
C6_Witness ==
  /\ \E c \in Pairs :
       /\ units[c[1]] = Al
       /\ checks[c].response = "not_found"
       /\ checks[c].membership = "outside_collaborator"
  /\ \E c \in Pairs :
       /\ units[c[1]] = Al
       /\ checks[c].response = "error"
       /\ checks[c].membership = "outside_collaborator"

\* The collaborators of an organization on the platform, lower-cased: what its
\* listing gives when no request fails.
FullCollaborators(login) ==
  {toLowerCase(x) : x \in Range(Flatten(collabPages[login]))}

\* What a membership request settles with when it does not fail.
FailureFree(response) ==
  IF response = "error" THEN {"resolved", "not_found"} ELSE {response}

\* C7: listing failures and membership-check failures never make the run throw
\* (a failed request leaves its fetch or check settled), and every
\* (user, organization) pair recorded with a non-none relationship has a
\* non-none relationship when nothing fails.
C7_FailuresOnlyUnderReport ==
  /\ rejected = NoRejection => (thrown = NoThrow /\ pcOrgs /= "failed")
  /\ \A i \in DOMAIN builds : builds[i].failed => builds[i].settled
  /\ \A c \in DOMAIN checks : checks[c].response = "error" => checks[c].settled
  /\ \A k \in DOMAIN userOrgs :
       \A j \in DOMAIN userOrgs[k] :
         LET login == userOrgs[k][j][1] IN
           \A r \in FailureFree(checks[<<k, OrgIndex(login)>>].response) :
             r = "resolved" \/ toLowerCase(units[k]) \in FullCollaborators(login)

\* A run with a failed listing and a failed membership check returned; it
\* reports one relationship and misses another that the platform holds.
C7_Witness ==
  /\ pcMem = "returned"
  /\ \E i \in DOMAIN builds : builds[i].failed
  /\ \E c \in Pairs : checks[c].response = "error"
  /\ \E c \in Pairs : checks[c].membership /= "none"
  /\ \E c \in Pairs :
       /\ checks[c].membership = "none"
       /\ toLowerCase(units[c[1]]) \in FullCollaborators(organizations[c[2]].login)

EnumerationPrefix == "Failed to fetch enterprise organizations: "

\* getEnterpriseOrganizations threw exactly when the organization listing
\* failed, never because a collaborator listing failed, and then returned nothing.
FailsOnlyOnEnumeration ==
  /\ (pcOrgs = "failed") = (rejected /= NoRejection)
  /\ (thrown /= NoThrow) = (rejected /= NoRejection)
  /\ pcOrgs = "failed" => organizations = <<>>
  /\ (\E i \in DOMAIN builds : builds[i].failed) => thrown = NoThrow

\* C8 as stated: whenever the organization listing fails, the Error thrown
\* carries the message of the failure.
C8_ErrorCarriesUnderlyingMessage ==
  /\ FailsOnlyOnEnumeration
  /\ pcOrgs = "failed" => thrown = <<EnumerationPrefix, rejected.message>>

\* C8 amended: the Error thrown carries the message of the failure when the
\* failure is an Error, and 'Unknown error' when it is any other value.
C8_ErrorCarriesMessageOfErrors ==
  /\ FailsOnlyOnEnumeration
  /\ pcOrgs = "failed" =>
       thrown = <<EnumerationPrefix,
                  IF rejected.isError THEN rejected.message ELSE "Unknown error">>

\* The listing failed with an Error on a later page, after logins were read.
C8_Witness ==
  /\ pcOrgs = "failed"
  /\ orgLogins /= <<>>
  /\ rejected.isError
  /\ organizations = <<>>

\* C9: getEnterpriseOrganizations has returned only when the collaborator fetch
\* of every enumerated login has settled, and no fetch exists before the
\* organization listing is exhausted.
C9_ReturnsAfterAllBuildsSettled ==
  /\ pcOrgs = "returned" =>
       /\ Len(builds) = Len(Flatten(entPages))
       /\ \A i \in DOMAIN builds : builds[i].settled
  /\ builds /= <<>> =>
       /\ enumCursor > Len(entPages)
       /\ orgLogins = Flatten(entPages)

\* Returned with two organizations, one fetch degraded and one read to its end.
C9_Witness ==
  /\ pcOrgs = "returned"
  /\ \E i, j \in DOMAIN builds :
       /\ builds[i].failed
       /\ ~builds[j].failed
       /\ builds[j].cursor > 1

\* C10: the organizations returned are the enumerated logins, one each, in the
\* order of enumeration.
C10_OrganizationsInEnumerationOrder ==
  pcOrgs = "returned" =>
    [i \in DOMAIN organizations |-> organizations[i].login] = Flatten(entPages)

\* The fetch of the second login settled before the fetch of the first.
C10_Witness ==
  /\ pcOrgs = "returned"
  /\ buildOrder = <<2, 1>>
  /\ Len(organizations) = 2

\* The call of aggregateResults that returned last. Every call is the last one
\* in the state it returns to, so what holds of the last call in every state
\* holds of every call.
LastCall == IF reports = <<>> THEN {} ELSE {Len(reports)}

\* C11: no organizations Map holds the value 'none', so no memberships list that
\* aggregateResults returns has an element of type 'none'.
C11_NoNoneRecorded ==
  /\ \A k \in DOMAIN userOrgs : \A j \in DOMAIN userOrgs[k] : userOrgs[k][j][2] /= "none"
  /\ \A r \in LastCall : \A u \in DOMAIN reports[r] :
       \A m \in DOMAIN reports[r][u].memberships :
         reports[r][u].memberships[m].type /= "none"

\* A report on a user whose check was 'none' for one organization and not for
\* the other.
C11_Witness ==
  /\ reports /= <<>>
  /\ \E k \in DOMAIN units : \E i, j \in DOMAIN organizations :
       /\ checks[<<k, i>>].membership = "none"
       /\ checks[<<k, j>>].membership /= "none"
       /\ \E u \in DOMAIN reports[1] :
            /\ reports[1][u].username = units[k]
            /\ Len(reports[1][u].memberships) = 1

\* The usernames of a report, in its order.
Usernames(report) == [u \in DOMAIN report |-> report[u].username]

\* The owners of the repositories, in input order.
Owners == [i \in DOMAIN repositories |-> repositories[i].owner]

\* C12: a report is ordered by membership count, most first, and among equal
\* counts by username ascending.
C12_OrderedByCountThenUsername ==
  \A r \in LastCall : \A u, v \in DOMAIN reports[r] :
    u < v =>
      \/ Len(reports[r][u].memberships) > Len(reports[r][v].memberships)
      \/ /\ Len(reports[r][u].memberships) = Len(reports[r][v].memberships)
         /\ localeCompare(reports[r][u].username, reports[r][v].username) <= 0

\* Owners A with two memberships, B with none, C with two and a username before
\* A's, found in that order, are reported as C, A, B.
C12_Witness ==
  /\ reports /= <<>>
  /\ Owners = <<bo, Al, al>>
  /\ Usernames(reports[1]) = <<al, bo, Al>>
  /\ [u \in DOMAIN reports[1] |-> Len(reports[1][u].memberships)] = <<2, 2, 0>>

\* C13: a report has exactly one UserResult for each distinct raw owner string
\* of the repositories, and no other; its length is the number of those strings.
C13_OneResultPerRawOwner ==
  \A r \in LastCall :
    /\ Range(Usernames(reports[r])) = Range(Owners)
    /\ NoDup(Usernames(reports[r]))
    /\ Len(reports[r]) = Cardinality(Range(Owners))

\* One owner found twice and the same account in another casing: two results.
C13_Witness ==
  /\ reports /= <<>>
  /\ Owners = <<Al, al, Al>>
  /\ Len(reports[1]) = 2

\* The repositories of one owner string, as many times and in the order they
\* are in the input.
ReposOf(owner) == SelectSeq(repositories, LAMBDA repo : repo.owner = owner)

\* C14: every input repository is in a report once for each time it is in the
\* input, under its own owner, and an owner's repositories keep their input
\* order.
C14_RepositoriesKeptUnderOwner ==
  \A r \in LastCall :
    /\ \A i \in DOMAIN repositories :
         \E u \in DOMAIN reports[r] : reports[r][u].username = repositories[i].owner
    /\ \A u \in DOMAIN reports[r] :
         reports[r][u].repositories = ReposOf(reports[r][u].username)

\* An owner with the same repository found twice, around another owner's.
C14_Witness ==
  /\ reports /= <<>>
  /\ Owners = <<Al, bo, Al>>
  /\ repositories[1] = repositories[3]
  /\ \E u \in DOMAIN reports[1] :
       reports[1][u].repositories = <<repositories[1], repositories[3]>>

\* Every repository of the account of owner o spells the owner as o.
ConsistentCasing(o) ==
  \A i \in DOMAIN repositories :
    toLowerCase(repositories[i].owner) = toLowerCase(o) => repositories[i].owner = o

\* The places of a memberships list that name the organization login.
Listed(result, login) == {m \in DOMAIN result.memberships : result.memberships[m].org = login}

\* C15: in the report of checkUserMemberships on the owners followed by
\* aggregateResults, an owner of consistent casing has exactly one UserResult,
\* with all the owner's repositories; an organization is listed for the owner
\* exactly when the check of the pair is not 'none', with the check's type; and
\* it is listed as outside_collaborator when the direct check failed and the
\* organization's collaborator set holds the owner.
C15_ReportListsWhatChecksFound ==
  \A r \in LastCall : \A n \in DOMAIN repositories :
    LET o == repositories[n].owner IN
    ConsistentCasing(o) =>
      /\ Cardinality({u \in DOMAIN reports[r] : reports[r][u].username = o}) = 1
      /\ \A u \in DOMAIN reports[r] :
           reports[r][u].username = o =>
             /\ reports[r][u].repositories = ReposOf(o)
             /\ \E k \in DOMAIN units :
                  /\ units[k] = o
                  /\ \A i \in DOMAIN organizations :
                       LET listed == Listed(reports[r][u], organizations[i].login)
                           check == checks[<<k, i>>]
                       IN /\ (listed /= {}) <=> (check.membership /= "none")
                          /\ Cardinality(listed) <= 1
                          /\ \A m \in listed :
                               reports[r][u].memberships[m].type = check.membership
                          /\ (/\ check.response /= "resolved"
                              /\ toLowerCase(o) \in organizations[i].outsideCollaborators)
                               => \E m \in listed :
                                    reports[r][u].memberships[m].type = "outside_collaborator"

\* Two repositories of bo, one organization whose collaborator set holds bo, the
\* direct check failed: one UserResult with both repositories and the
\* organization as outside_collaborator.
C15_Witness ==
  /\ reports /= <<>>
  /\ Owners = <<bo, bo>>
  /\ Len(organizations) = 1
  /\ bo \in organizations[1].outsideCollaborators
  /\ checks[<<1, 1>>].response = "not_found"
  /\ Len(reports[1]) = 1
  /\ reports[1][1].username = bo
  /\ reports[1][1].repositories = repositories
  /\ reports[1][1].memberships =
       <<[org |-> organizations[1].login, type |-> "outside_collaborator"]>>

FirstSeen(n) ==
  \A m \in 1..(n - 1) :
    toLowerCase(repositories[m].owner) /= toLowerCase(repositories[n].owner)

\* C17: when an account owns repositories under two casings and the owners go
\* to checkUserMemberships in repository order, each casing has its own
\* UserResult; the first-seen casing carries the account's memberships, and the
\* other casing has no resolution unit and an empty memberships list.
C17_MembershipsOnFirstSeenCasingOnly ==
  \A r \in LastCall : \A i, j \in DOMAIN repositories :
    LET first == repositories[i].owner
        other == repositories[j].owner
    IN (/\ FirstSeen(i)
        /\ other /= first
        /\ toLowerCase(other) = toLowerCase(first))
       => /\ \A k \in DOMAIN units : units[k] /= other
          /\ \E u, v \in DOMAIN reports[r] :
               /\ u /= v
               /\ reports[r][u].username = first
               /\ reports[r][v].username = other
               /\ reports[r][v].memberships = <<>>
               /\ \E k \in DOMAIN units :
                    /\ units[k] = first
                    /\ Len(reports[r][u].memberships) =
                         Cardinality({o \in DOMAIN organizations :
                                        checks[<<k, o>>].membership /= "none"})

\* Al then al: Al is reported with a membership, al with none.
C17_Witness ==
  /\ reports /= <<>>
  /\ Owners = <<Al, al>>
  /\ Usernames(reports[1]) = <<Al, al>>
  /\ reports[1][1].memberships /= <<>>
  /\ reports[1][2].memberships = <<>>

\* C18: when every membership query settles, checkUserMemberships returns, with
\* every pair's check settled and every user's unit entered, failed queries or
\* not.
C18_EventuallyReturns ==
  <>(/\ pcMem = "returned"
     /\ \A c \in DOMAIN checks : checks[c].settled
     /\ \A k \in DOMAIN units : MapHas(userMemberships, units[k]))

\* Returned although a query of the first user failed, with the second user's
\* direct checks answered.
C18_Witness ==
  /\ pcMem = "returned"
  /\ Len(units) = 2
  /\ Len(organizations) = 2
  /\ checks[<<1, 1>>].response = "error"
  /\ checks[<<1, 2>>].response = "resolved"
  /\ checks[<<2, 1>>].response = "resolved"
  /\ Len(userMemberships) = 2

\* usernames[n] is the first of the input to name its account.
FirstSeenUsername(n) ==
  \A m \in 1..(n - 1) : toLowerCase(usernames[m]) /= toLowerCase(usernames[n])

\* C19: the Map checkUserMemberships returns has one entry for each username of
\* the input that differs from the others when lower-cased, and no other entry;
\* the entry is keyed by the first-seen casing and its UserMembership carries
\* that casing as username, whether or not its organizations Map is empty.
C19_OneEntryPerUserFirstSeenCasing ==
  pcMem = "returned" =>
    /\ Len(userMemberships) = Cardinality({toLowerCase(usernames[n]) : n \in DOMAIN usernames})
    /\ \A n \in DOMAIN usernames :
         FirstSeenUsername(n) =>
           \E j \in DOMAIN userMemberships :
             /\ userMemberships[j][1] = usernames[n]
             /\ units[userMemberships[j][2]] = usernames[n]
             /\ \A l \in DOMAIN userMemberships :
                  toLowerCase(userMemberships[l][1]) = toLowerCase(usernames[n]) => l = j

\* Al then al, every check 'none': one entry, keyed Al, with an empty Map.
C19_Witness ==
  /\ pcMem = "returned"
  /\ usernames = <<Al, al>>
  /\ organizations /= <<>>
  /\ userMemberships = <<<<Al, 1>>>>
  /\ units[1] = Al
  /\ userOrgs[1] = <<>>

\* The organizations Map of unit k had its checks settled in the order of the
\* organizations, up to the n-th.
RECURSIVE OrgsInOrder(_, _)
OrgsInOrder(k, n) ==
  IF n = 0 THEN <<>>
  ELSE RecordMembership(OrgsInOrder(k, n - 1), organizations[n].login,
                        checks[<<k, n>>].membership)

\* The Map checkUserMemberships returns on the same inputs and the same query
\* outcomes when the units finish one after the other in loop order.
InOrderMemberships ==
  [k \in DOMAIN units |-> <<units[k], OrgsInOrder(k, Len(organizations))>>]

\* C20: whatever the order in which checks settled and units were entered into
\* the Map, the usernames of the report are in the order they have when the
\* units finish in loop order with the same outcomes.
C20_ReportOrderIndependentOfInterleaving ==
  \A r \in LastCall :
    Usernames(reports[r]) = Usernames(aggregateResults(repositories, InOrderMemberships))

\* A report on two users, the second entered into the Map before the first.
C20_Witness ==
  /\ reports /= <<>>
  /\ Len(units) = 2
  /\ MapKeys(userMemberships) = <<units[2], units[1]>>
  /\ Len(reports[1]) = 2
  /\ reports[1][1].memberships /= <<>>

====
